---- MODULE Spec2Model ----
\* Model of the AMR gene comparison scripts: src/src/compare_to_reference.py
\* (loaders, similarity scorer, matcher, batch comparator, formatter, CLI) and
\* src/src/report_generator.py (generate_report, save_report, CLI).
\*
\* Representation.
\*   - A Python str is a sequence of one-character strings.
\*   - A float similarity is the exact rational <<n, d>> (d > 0) of the value
\*     the code computes; for the operands that occur (0.0, -1.0 and
\*     (matches / total) * 100 with small total) IEEE rounding is a strictly
\*     monotone function of that rational, so `>` and `==` agree with it.
\*   - A rounded similarity (round(x, 2)) is an integer number of hundredths
\*     of a percent: 100.0 is 10000, 66.67 is 6667, -1.0 is -100.
EXTENDS Integers, Sequences, FiniteSets, TLC

VARIABLES
    simPc, simSample, simReference, simResult,
    matchPc, matchSample, matchRows, matchIdx, best_gene, best_similarity,
    entry, refFile, fastaFile, pc, reference_df, samples, sampleIdx, results,
    df, outFile, stdout, err, calls

simVars == <<simPc, simSample, simReference, simResult>>
matchVars == <<matchPc, matchSample, matchRows, matchIdx, best_gene, best_similarity>>
runVars == <<entry, refFile, fastaFile, pc, reference_df, samples, sampleIdx,
             results, df, outFile, stdout, err, calls>>
vars == <<simVars, matchVars, runVars>>

----------------------------------------------------------------------------
\* Bounds of the model.

\* Longest sequence drawn for the scorer and the matcher.
MaxSeqLen == 2
\* Largest number of reference rows.
MaxRefs == 2
\* Largest number of FASTA records / comparison results.
MaxSamples == 2

\* Characters of the scorer's inputs: both cases of two nucleotides.
Alphabet == {"A", "C", "a", "c"}
\* Characters of the matcher's sample (load_samples hands it upper case).
SampleAlphabet == {"A", "C"}
\* Characters of the matcher's reference sequences (not upper-cased at load).
RefAlphabet == {"A", "c"}

SeqsUpTo(S, n) == UNION {[1..k -> S] : k \in 0..n}

Min(a, b) == IF a <= b THEN a ELSE b
Max(a, b) == IF a >= b THEN a ELSE b

----------------------------------------------------------------------------
\* Floats as exact rationals <<n, d>>, d > 0.

Zero == <<0, 1>>
MinusOne == <<-1, 1>>
FloatGt(x, y) == x[1] * y[2] > y[1] * x[2]
FloatEq(x, y) == x[1] * y[2] = y[1] * x[2]
FloatLe(x, y) == x[1] * y[2] <= y[1] * x[2]

\* round(x, 2), in hundredths: the nearest integer to 100 * x. No value the
\* model reaches lies on a rounding tie (that needs a denominator that is a
\* multiple of 32).
round2(x) == (2 * 100 * x[1] + x[2]) \div (2 * x[2])

----------------------------------------------------------------------------
\* str.upper and the similarity scorer.

UpperChar(ch) ==
    CASE ch = "a" -> "A"
      [] ch = "c" -> "C"
      [] ch = "g" -> "G"
      [] ch = "t" -> "T"
      [] OTHER -> ch

upperNoop(s) == s

upper(s) == [i \in 1..Len(s) |-> UpperChar(s[i])]

\* zip(sample, reference): pairs up to the end of the shorter string.
zip(s, r) == [i \in 1..Min(Len(s), Len(r)) |-> <<s[i], r[i]>>]

\* sum(1 for s, r in pairs if s == r)
RECURSIVE CountMatches(_)
CountMatches(pairs) ==
    IF pairs = <<>> THEN 0
    ELSE (IF Head(pairs)[1] = Head(pairs)[2] THEN 1 ELSE 0)
         + CountMatches(Tail(pairs))

total_positions_sample(sample, reference) == Len(sample)

total_positions(sample, reference) == Max(Len(sample), Len(reference))

compute_similarity(sample_seq, reference_seq) ==
    LET sample == upper(sample_seq)
        reference == upper(reference_seq)
    IN  IF sample = <<>> \/ reference = <<>> THEN Zero
        ELSE LET matches == CountMatches(zip(sample, reference))
                 total == total_positions(sample, reference)
             IN  IF total = 0 THEN Zero
                 ELSE <<matches * 100, total>>

----------------------------------------------------------------------------
\* The scorer applied to every pair of bounded sequences.

SimIdle ==
    /\ simPc = "idle" /\ simSample = <<>> /\ simReference = <<>>
    /\ simResult = Zero
MatchIdle ==
    /\ matchPc = "idle" /\ matchSample = <<>> /\ matchRows = <<>>
    /\ matchIdx = 0 /\ best_gene = "" /\ best_similarity = Zero
NoFile == [exists |-> FALSE, rows |-> <<>>]
NoCalls == [load_samples |-> 0, matcher |-> 0, scorer |-> 0]
RunIdle ==
    /\ entry = "none" /\ pc = "idle" /\ err = "none"
    /\ refFile = [exists |-> FALSE, columns |-> {}, rows |-> <<>>]
    /\ fastaFile = [exists |-> FALSE, records |-> <<>>]
    /\ reference_df = <<>> /\ samples = <<>> /\ sampleIdx = 0
    /\ results = <<>> /\ df = <<>> /\ outFile = NoFile /\ stdout = <<>>
    /\ calls = NoCalls

SimInit ==
    /\ simPc = "call"
    /\ simSample \in SeqsUpTo(Alphabet, MaxSeqLen)
    /\ simReference \in SeqsUpTo(Alphabet, MaxSeqLen)
    /\ simResult = Zero
    /\ MatchIdle /\ RunIdle

ComputeSimilarity ==
    /\ simPc = "call"
    /\ simResult' = compute_similarity(simSample, simReference)
    /\ simPc' = "returned"
    /\ UNCHANGED <<simSample, simReference, matchVars, runVars>>

SimNext == ComputeSimilarity
SpecSim == SimInit /\ [][SimNext]_vars

\* The positions, below the shorter length, at which the case-normalized
\* characters of a and b are equal.
EqualPositions(a, b) ==
    {i \in 1..Min(Len(a), Len(b)) : UpperChar(a[i]) = UpperChar(b[i])}

\* C1: compute_similarity returns 0.0 when either sequence is empty, and
\* otherwise 100 * M / max(len(sample), len(reference)), M being the number of
\* positions below the shorter length whose upper-cased characters are equal;
\* so the result never exceeds 100 * min(len) / max(len).
SimilarityIsMatchesOverLonger ==
    simPc = "returned" =>
        IF simSample = <<>> \/ simReference = <<>>
        THEN simResult = Zero
        ELSE /\ FloatEq(simResult,
                        <<100 * Cardinality(EqualPositions(simSample, simReference)),
                          Max(Len(simSample), Len(simReference))>>)
             /\ FloatLe(simResult,
                        <<100 * Min(Len(simSample), Len(simReference)),
                          Max(Len(simSample), Len(simReference))>>)
             /\ FloatLe(Zero, simResult)

\* A perfect prefix match across differing case and differing length: the
\* result is capped at min/max.
SimilarityWitness ==
    /\ simPc = "returned"
    /\ Len(simSample) = 2 /\ Len(simReference) = 1
    /\ simSample[1] = "a" /\ simReference[1] = "A"
    /\ FloatEq(simResult, <<50, 1>>)

\* C9: compute_similarity(a, b) = compute_similarity(b, a) for every pair,
\* including pairs of different lengths and pairs with an empty sequence.
SimilaritySymmetric ==
    simPc = "returned" =>
        FloatEq(simResult, compute_similarity(simReference, simSample))

\* A pair of different lengths with a non-zero score.
SymmetryWitness ==
    /\ simPc = "returned"
    /\ Len(simSample) < Len(simReference)
    /\ simSample # <<>>
    /\ FloatGt(simResult, Zero)

----------------------------------------------------------------------------
\* The matcher: find_closest_match, one loop iteration per step.

GeneNames == <<"geneA", "geneB", "geneC", "geneD">>

\* The reference tables of at most n rows with sequences from seqs; row i is
\* named GeneNames[i].
RowSets(seqs, n) ==
    UNION {{[i \in 1..k |-> [gene_name |-> GeneNames[i], sequence |-> f[i]]] :
                f \in [1..k -> seqs]} : k \in 0..n}

InitBestZero == [gene |-> "", similarity |-> Zero]

\* best_gene = ""; best_similarity = -1.0
InitBest == [gene |-> "", similarity |-> MinusOne]

ScanBodyGe(sample_seq, best, row) ==
    LET similarity == compute_similarity(sample_seq, row.sequence)
    IN  IF FloatGt(similarity, best.similarity) \/ FloatEq(similarity, best.similarity)
        THEN [gene |-> row.gene_name, similarity |-> similarity]
        ELSE best

\* The body of `for _, row in reference_df.iterrows()`.
ScanBody(sample_seq, best, row) ==
    LET similarity == compute_similarity(sample_seq, row.sequence)
    IN  IF FloatGt(similarity, best.similarity)
        THEN [gene |-> row.gene_name, similarity |-> similarity]
        ELSE best

RECURSIVE ScanRows(_, _, _)
ScanRows(sample_seq, best, rows) ==
    IF rows = <<>> THEN best
    ELSE ScanRows(sample_seq, ScanBody(sample_seq, best, Head(rows)), Tail(rows))

find_closest_match(sample_seq, reference) ==
    ScanRows(sample_seq, InitBest, reference)

MatchInit ==
    /\ matchPc = "call"
    /\ matchSample \in SeqsUpTo(SampleAlphabet, MaxSeqLen)
    /\ matchRows \in RowSets(SeqsUpTo(RefAlphabet, MaxSeqLen), MaxRefs)
    /\ matchIdx = 0 /\ best_gene = "" /\ best_similarity = Zero
    /\ SimIdle /\ RunIdle

\* Lines 71-72: the initial best.
MatchEnter ==
    /\ matchPc = "call"
    /\ best_gene' = InitBest.gene
    /\ best_similarity' = InitBest.similarity
    /\ matchPc' = "scan"
    /\ UNCHANGED <<matchSample, matchRows, matchIdx, simVars, runVars>>

\* Lines 73-77: one iteration over the next row.
MatchIterate ==
    /\ matchPc = "scan"
    /\ matchIdx < Len(matchRows)
    /\ LET best == ScanBody(matchSample,
                            [gene |-> best_gene, similarity |-> best_similarity],
                            matchRows[matchIdx + 1])
       IN  /\ best_gene' = best.gene
           /\ best_similarity' = best.similarity
    /\ matchIdx' = matchIdx + 1
    /\ UNCHANGED <<matchPc, matchSample, matchRows, simVars, runVars>>

\* Line 78: return best_gene, best_similarity.
MatchReturn ==
    /\ matchPc = "scan"
    /\ matchIdx = Len(matchRows)
    /\ matchPc' = "returned"
    /\ UNCHANGED <<matchSample, matchRows, matchIdx, best_gene, best_similarity,
                   simVars, runVars>>

MatchNext == MatchEnter \/ MatchIterate \/ MatchReturn
SpecMatch == MatchInit /\ [][MatchNext]_vars

\* The similarity of the sample to row k of the table.
RowSimilarity(sample_seq, rows, k) == compute_similarity(sample_seq, rows[k].sequence)

\* The lowest index among the first n rows whose similarity is the maximum
\* over those n rows.
FirstMaxIndex(sample_seq, rows, n) ==
    CHOOSE k \in 1..n :
        /\ \A j \in 1..n :
              FloatLe(RowSimilarity(sample_seq, rows, j), RowSimilarity(sample_seq, rows, k))
        /\ \A j \in 1..(k - 1) :
              ~FloatEq(RowSimilarity(sample_seq, rows, j), RowSimilarity(sample_seq, rows, k))

\* C2: on a non-empty reference, find_closest_match returns (gene, sim) with
\* sim the maximum similarity over ALL rows and gene the gene_name of a row
\* whose similarity equals sim.
MatcherReturnsMaximum ==
    (matchPc = "returned" /\ matchRows # <<>>) =>
        /\ \A k \in 1..Len(matchRows) :
              FloatLe(RowSimilarity(matchSample, matchRows, k), best_similarity)
        /\ \E k \in 1..Len(matchRows) :
              /\ matchRows[k].gene_name = best_gene
              /\ FloatEq(RowSimilarity(matchSample, matchRows, k), best_similarity)

\* The maximum is attained by the last row only, and is below 100.
MatcherMaximumWitness ==
    /\ matchPc = "returned"
    /\ Len(matchRows) = 2
    /\ best_gene = "geneB"
    /\ FloatGt(best_similarity, RowSimilarity(matchSample, matchRows, 1))
    /\ FloatGt(RowSimilarity(matchSample, matchRows, 1), Zero)

\* C3: at every step of the scan the current best is the LOWEST-index row,
\* among those scanned so far, that attains their maximal similarity: a later
\* row with an equal similarity never replaces it, so the returned gene is the
\* earliest row attaining the maximum.
MatcherKeepsEarliestOnTies ==
    (matchPc \in {"scan", "returned"} /\ matchIdx >= 1) =>
        LET k == FirstMaxIndex(matchSample, matchRows, matchIdx)
        IN  /\ best_gene = matchRows[k].gene_name
            /\ FloatEq(best_similarity, RowSimilarity(matchSample, matchRows, k))

\* Two rows tie at a positive maximum and the first one is returned.
MatcherTieWitness ==
    /\ matchPc = "returned"
    /\ Len(matchRows) = 2
    /\ FloatEq(RowSimilarity(matchSample, matchRows, 1),
               RowSimilarity(matchSample, matchRows, 2))
    /\ FloatGt(best_similarity, Zero)
    /\ matchRows[1].sequence # matchRows[2].sequence
    /\ best_gene = "geneA"

----------------------------------------------------------------------------
\* The two command-line runs: compare_to_reference.main ("compare") and
\* report_generator.main ("report"), one statement per step.

SampleIds == {"s1", "s2"}
\* Raw FASTA sequences of the runs (before load_samples upper-cases them).
RunSampleSeqs == {<<>>, <<"A">>, <<"a", "c">>}
\* Reference sequences of the runs (pandas reads an empty field as NaN, not
\* as "", so none is empty).
RunRefSeqs == {<<"a">>, <<"A", "C">>, <<"C", "c", "A">>}

RequiredColumns == {"gene_name", "sequence"}

RefFiles ==
    {[exists |-> FALSE, columns |-> {}, rows |-> <<>>]}
    \cup {[exists |-> TRUE, columns |-> c, rows |-> <<>>] :
              c \in (SUBSET RequiredColumns) \ {RequiredColumns}}
    \cup {[exists |-> TRUE, columns |-> RequiredColumns, rows |-> r] :
              r \in RowSets(RunRefSeqs, MaxRefs)}

FastaFiles ==
    {[exists |-> FALSE, records |-> <<>>]}
    \cup {[exists |-> TRUE, records |-> r] :
              r \in SeqsUpTo([id : SampleIds, seq : RunSampleSeqs], MaxSamples)}

load_reference_unchecked(file) ==
    IF ~file.exists THEN [err |-> "NotFound_reference", frame |-> <<>>]
    ELSE [err |-> "none", frame |-> file.rows]

load_reference(file) ==
    IF ~file.exists THEN [err |-> "NotFound_reference", frame |-> <<>>]
    ELSE IF ~(RequiredColumns \subseteq file.columns)
         THEN [err |-> "SchemaError", frame |-> <<>>]
         ELSE [err |-> "none", frame |-> file.rows]

load_samples(file) ==
    IF ~file.exists THEN [err |-> "NotFound_fasta", records |-> <<>>]
    ELSE LET records == [i \in 1..Len(file.records) |->
                            [id |-> file.records[i].id,
                             seq |-> upper(file.records[i].seq)]]
         IN  IF records = <<>> THEN [err |-> "EmptyInput", records |-> <<>>]
             ELSE [err |-> "none", records |-> records]

CompareBodySkipNoMatch(acc, record, reference) ==
    LET m == find_closest_match(record.seq, reference)
    IN  IF m.gene = "" THEN acc
        ELSE Append(acc, [sample_id |-> record.id, closest_gene |-> m.gene,
                          similarity |-> round2(m.similarity)])

CompareBodyDedup(acc, record, reference) ==
    LET m == find_closest_match(record.seq, reference)
    IN  IF \E i \in 1..Len(acc) : acc[i].sample_id = record.id THEN acc
        ELSE Append(acc, [sample_id |-> record.id, closest_gene |-> m.gene,
                          similarity |-> round2(m.similarity)])

CompareBodySkipEmptySeq(acc, record, reference) ==
    LET m == find_closest_match(record.seq, reference)
    IN  IF record.seq = <<>> THEN acc
        ELSE Append(acc, [sample_id |-> record.id, closest_gene |-> m.gene,
                          similarity |-> round2(m.similarity)])

\* The body of `for sample_id, sequence in samples`.
CompareBody(acc, record, reference) ==
    LET m == find_closest_match(record.seq, reference)
    IN  Append(acc, [sample_id |-> record.id, closest_gene |-> m.gene,
                     similarity |-> round2(m.similarity)])

results_to_dataframe(rs) ==
    [i \in 1..Len(rs) |-> [Sample_ID |-> rs[i].sample_id,
                           Closest_AMR_Gene |-> rs[i].closest_gene,
                           Similarity_pct |-> rs[i].similarity]]

\* mkdir(parents=True, exist_ok=True); df.to_csv(output_path, index=False)
save_report(frame) == [exists |-> TRUE, rows |-> frame]

Init ==
    /\ entry \in {"compare", "report"}
    /\ refFile \in RefFiles
    /\ fastaFile \in FastaFiles
    /\ pc = "load_reference" /\ err = "none"
    /\ reference_df = <<>> /\ samples = <<>> /\ sampleIdx = 0
    /\ results = <<>> /\ df = <<>> /\ outFile = NoFile /\ stdout = <<>>
    /\ calls = NoCalls
    /\ SimIdle /\ MatchIdle

\* reference_df = load_reference(...)
LoadReference ==
    /\ pc = "load_reference"
    /\ LET r == load_reference(refFile)
       IN  /\ err' = r.err
           /\ reference_df' = r.frame
           /\ pc' = IF r.err = "none" THEN "load_samples" ELSE "aborted"
    /\ UNCHANGED <<entry, refFile, fastaFile, samples, sampleIdx, results, df,
                   outFile, stdout, calls, simVars, matchVars>>

\* samples = load_samples(...); then line 86, results = [].
LoadSamples ==
    /\ pc = "load_samples"
    /\ calls' = [calls EXCEPT !.load_samples = @ + 1]
    /\ LET r == load_samples(fastaFile)
       IN  /\ err' = r.err
           /\ samples' = r.records
           /\ pc' = IF r.err = "none" THEN "compare" ELSE "aborted"
    /\ sampleIdx' = 0
    /\ results' = <<>>
    /\ UNCHANGED <<entry, refFile, fastaFile, reference_df, df, outFile, stdout,
                   simVars, matchVars>>

\* Lines 87-95: one iteration of compare_samples_to_reference's loop.
CompareStep ==
    /\ pc = "compare"
    /\ sampleIdx < Len(samples)
    /\ results' = CompareBody(results, samples[sampleIdx + 1], reference_df)
    /\ sampleIdx' = sampleIdx + 1
    /\ calls' = [calls EXCEPT !.matcher = @ + 1, !.scorer = @ + Len(reference_df)]
    /\ UNCHANGED <<entry, refFile, fastaFile, pc, err, reference_df, samples, df,
                   outFile, stdout, simVars, matchVars>>

\* Line 96: return results.
CompareReturn ==
    /\ pc = "compare"
    /\ sampleIdx = Len(samples)
    /\ pc' = "to_dataframe"
    /\ UNCHANGED <<entry, refFile, fastaFile, err, reference_df, samples, sampleIdx,
                   results, df, outFile, stdout, calls, simVars, matchVars>>

\* df = results_to_dataframe(results)
ResultsToDataframe ==
    /\ pc = "to_dataframe"
    /\ df' = results_to_dataframe(results)
    /\ pc' = "check_empty"
    /\ UNCHANGED <<entry, refFile, fastaFile, err, reference_df, samples, sampleIdx,
                   results, outFile, stdout, calls, simVars, matchVars>>

\* if df.empty: raise SystemExit("No comparison results generated.")
CheckEmpty ==
    /\ pc = "check_empty"
    /\ err' = IF df = <<>> THEN "EmptyResult" ELSE err
    /\ pc' = IF df = <<>> THEN "aborted"
             ELSE IF entry = "report" THEN "save" ELSE "print"
    /\ UNCHANGED <<entry, refFile, fastaFile, reference_df, samples, sampleIdx,
                   results, df, outFile, stdout, calls, simVars, matchVars>>

\* save_path = save_report(df, args.output)
SaveReport ==
    /\ pc = "save"
    /\ outFile' = save_report(df)
    /\ pc' = "print"
    /\ UNCHANGED <<entry, refFile, fastaFile, err, reference_df, samples, sampleIdx,
                   results, df, stdout, calls, simVars, matchVars>>

\* print(f"Report saved to ...") in the report run; print(df.to_string(...))
PrintTable ==
    /\ pc = "print"
    /\ stdout' = IF entry = "report"
                 THEN <<[kind |-> "path", rows |-> <<>>], [kind |-> "table", rows |-> df]>>
                 ELSE <<[kind |-> "table", rows |-> df]>>
    /\ pc' = "done"
    /\ UNCHANGED <<entry, refFile, fastaFile, err, reference_df, samples, sampleIdx,
                   results, df, outFile, calls, simVars, matchVars>>

Next ==
    \/ LoadReference
    \/ LoadSamples
    \/ CompareStep
    \/ CompareReturn
    \/ ResultsToDataframe
    \/ CheckEmpty
    \/ SaveReport
    \/ PrintTable

Spec == Init /\ [][Next]_vars

\* The reference source was loaded and validated.
ReferenceLoaded ==
    /\ refFile.exists
    /\ RequiredColumns \subseteq refFile.columns
    /\ pc # "load_reference"

\* The statements after compare_samples_to_reference has returned.
AfterCompare == {"to_dataframe", "check_empty", "save", "print", "done"}

\* The Comparison Result the batch comparator owes one sample record: the
\* rounded similarity and the name of the lowest-index row attaining the
\* maximum, or ("", -1.0) on an empty reference.
ExpectedResult(record, reference) ==
    IF reference = <<>>
    THEN [sample_id |-> record.id, closest_gene |-> "", similarity |-> -100]
    ELSE LET k == FirstMaxIndex(record.seq, reference, Len(reference))
         IN  [sample_id |-> record.id,
              closest_gene |-> reference[k].gene_name,
              similarity |-> round2(RowSimilarity(record.seq, reference, k))]

\* C4: every Comparison Result produced by compare_samples_to_reference, on
\* any reference collection (an empty one included), has a similarity in
\* [0, 100] (0 .. 10000 hundredths).
ResultSimilarityInRange ==
    \A i \in 1..Len(results) :
        results[i].similarity >= 0 /\ results[i].similarity <= 10000

\* C5: on an empty reference collection find_closest_match returns ("", -1.0)
\* without calling the scorer, and compare_samples_to_reference still emits
\* exactly one result, with closest_gene = "", for every sample: no sample is
\* skipped and the run does not abort in the comparison.
EmptyReferenceStillYieldsResults ==
    (ReferenceLoaded /\ reference_df = <<>>) =>
        /\ \A i \in 1..Len(samples) :
              find_closest_match(samples[i].seq, reference_df)
                  = [gene |-> "", similarity |-> MinusOne]
        /\ calls.scorer = 0
        /\ \A i \in 1..Len(results) :
              /\ results[i].sample_id = samples[i].id
              /\ results[i].closest_gene = ""
              /\ results[i].similarity = -100
        /\ pc = "compare" => Len(results) = sampleIdx
        /\ pc \in AfterCompare => Len(results) = Len(samples)
        /\ pc = "aborted" => err \in {"NotFound_fasta", "EmptyInput"}

\* A finished run over an empty reference table with two samples.
EmptyReferenceWitness ==
    /\ pc = "done"
    /\ ReferenceLoaded /\ reference_df = <<>>
    /\ Len(samples) = 2 /\ Len(results) = 2
    /\ results[2].closest_gene = ""

\* C6: compare_samples_to_reference returns exactly one result per sample
\* record, in input order; the i-th result carries the i-th record's
\* sample_id and the match of the i-th record's sequence alone (nothing is
\* dropped, duplicated, deduplicated or reordered).
BatchIsPerSampleMap ==
    /\ Len(results) <= Len(samples)
    /\ pc = "compare" => Len(results) = sampleIdx
    /\ pc \in AfterCompare => Len(results) = Len(samples)
    /\ \A i \in 1..Len(results) :
          results[i] = ExpectedResult(samples[i], reference_df)

\* Two records with the same identifier and different sequences are both
\* kept, in order, each with its own match.
BatchWitness ==
    /\ pc = "done"
    /\ Len(results) = 2
    /\ results[1].sample_id = results[2].sample_id
    /\ results[1].closest_gene # results[2].closest_gene
    /\ results[1].similarity # results[2].similarity

\* C7: a compare-and-save run has no partial failure: the report file is
\* written (and anything printed) only after both loads succeeded and every
\* sample has its Comparison Result, and it then holds one row per sample; a
\* run that ends in NotFound, SchemaError, EmptyInput or EmptyResult has
\* written no file and printed nothing.
NoPartialFailure ==
    /\ (outFile.exists \/ stdout # <<>>) =>
          /\ err = "none"
          /\ pc \in {"print", "done"}
          /\ samples # <<>>
          /\ Len(results) = Len(samples)
    /\ outFile.exists =>
          /\ entry = "report"
          /\ Len(outFile.rows) = Len(samples)
          /\ \A i \in 1..Len(samples) : outFile.rows[i].Sample_ID = samples[i].id
    /\ (err # "none" \/ pc = "aborted") =>
          /\ ~outFile.exists
          /\ stdout = <<>>
          /\ pc = "aborted"
          /\ err \in {"NotFound_reference", "SchemaError", "NotFound_fasta",
                      "EmptyInput", "EmptyResult"}

\* A compare-and-save run that wrote a two-row report, one of them for a
\* record with an empty sequence.
NoPartialFailureWitness ==
    /\ entry = "report"
    /\ pc = "done"
    /\ outFile.exists
    /\ Len(outFile.rows) = 2
    /\ \E i \in 1..2 : samples[i].seq = <<>>

\* C10: in both entry points the reference source is loaded and validated
\* before the sample source is read and before any comparison: with a missing
\* reference path or a missing required column the run ends with NotFound or
\* SchemaError after zero calls to the sample loader, the matcher and the
\* scorer, whatever the state of the sample file.
ReferenceErrorTakesPrecedence ==
    LET refBad == ~refFile.exists \/ ~(RequiredColumns \subseteq refFile.columns)
    IN  /\ refBad =>
              /\ calls = NoCalls
              /\ pc \in {"load_reference", "aborted"}
              /\ pc = "aborted" =>
                    err = (IF ~refFile.exists THEN "NotFound_reference"
                           ELSE "SchemaError")
        /\ err \in {"NotFound_reference", "SchemaError"} =>
              /\ refBad
              /\ calls = NoCalls
        /\ (calls.load_samples > 0 \/ calls.matcher > 0 \/ calls.scorer > 0) =>
              ~refBad

\* The reference lacks a column AND the FASTA file is missing: the run ends
\* with the reference's SchemaError.
ReferencePrecedenceWitness ==
    /\ pc = "aborted"
    /\ err = "SchemaError"
    /\ refFile.exists
    /\ ~fastaFile.exists

----------------------------------------------------------------------------
\* The formatter called as a library: results_to_dataframe(results), then
\* save_report(df, output_csv), on any list of Comparison Results.

LibResults ==
    SeqsUpTo([sample_id : SampleIds, closest_gene : {"", "geneA"},
              similarity : {-100, 0, 10000}], MaxSamples)

LibInit ==
    /\ entry = "library"
    /\ pc = "lib_to_dataframe" /\ err = "none"
    /\ results \in LibResults
    /\ refFile = [exists |-> FALSE, columns |-> {}, rows |-> <<>>]
    /\ fastaFile = [exists |-> FALSE, records |-> <<>>]
    /\ reference_df = <<>> /\ samples = <<>> /\ sampleIdx = 0
    /\ df = <<>> /\ outFile = NoFile /\ stdout = <<>>
    /\ calls = NoCalls
    /\ SimIdle /\ MatchIdle

LibResultsToDataframe ==
    /\ pc = "lib_to_dataframe"
    /\ df' = results_to_dataframe(results)
    /\ pc' = "lib_save"
    /\ UNCHANGED <<entry, refFile, fastaFile, err, reference_df, samples, sampleIdx,
                   results, outFile, stdout, calls, simVars, matchVars>>

LibSaveReport ==
    /\ pc = "lib_save"
    /\ outFile' = save_report(df)
    /\ pc' = "lib_done"
    /\ UNCHANGED <<entry, refFile, fastaFile, err, reference_df, samples, sampleIdx,
                   results, df, stdout, calls, simVars, matchVars>>

LibNext == LibResultsToDataframe \/ LibSaveReport
SpecLib == LibInit /\ [][LibNext]_vars

\* C8: the Report Formatter fails with an error whenever the set of
\* Comparison Results is empty: results_to_dataframe and save_report never
\* silently yield or write an empty report.
FormatterRejectsEmptyResults ==
    /\ (results = <<>> /\ pc \in {"lib_save", "lib_done"}) => err # "none"
    /\ outFile.exists => outFile.rows # <<>>

====
